---- MODULE Spec2Model ----
(***************************************************************************)
(* AIGenerator.generate_response and AIGenerator._handle_tool_execution    *)
(* (backend/ai_generator.py) as a state machine, and around them the       *)
(* facade RAGSystem.query and the POST /api/query handler.                 *)
(*                                                                         *)
(* Under Spec one behaviour is one call of generate_response with any      *)
(* arguments; under ReplaySpec the call is made a second time against the  *)
(* same model responses; under AppSpec the server handles one request      *)
(* after the other, each running generate_response inside the facade.      *)
(* The two outside parties, the language-model client                      *)
(* (client.messages.create) and the tool manager (execute_tool), answer    *)
(* nondeterministically or raise.                                          *)
(*                                                                         *)
(* Python strings that the code builds or compares are sequences of        *)
(* pieces, so that an f-string is a concatenation and == is equality of    *)
(* the built text.  Optional arguments are None (the empty tuple) or       *)
(* Some(v) (a one-element tuple).  A dict is a function from its keys.     *)
(***************************************************************************)
EXTENDS Integers, Sequences, FiniteSets, TLC

\* ---------------------------------------------------------------- bounds
\* Most content blocks in one model response.
MaxBlocks == 2

\* Cap on client.messages.create calls in one behaviour: it never binds the
\* code as written and keeps a loop that fails to stop finite.
MaxCalls == 5

\* ------------------------------------------------------- program constants
MAX_TOOL_ROUNDS == 2

SYSTEM_PROMPT == <<"SYSTEM_PROMPT">>

None == <<>>
Some(v) == <<v>>

\* Mutant of Truthy: `is not None` instead of truthiness.
TruthyNotNone(opt) == opt # None

\* Python truthiness of an Optional list or str argument: None, [] and ""
\* are false.
Truthy(opt) == opt # None /\ opt[1] # <<>>

\* Python truthiness of an Optional object argument: only None is false.
TruthyObject(opt) == opt # None

\* self.base_params, built by __init__.
base_params ==
  ("model" :> "test-model") @@ ("temperature" :> 0) @@ ("max_tokens" :> 800)

\* ------------------------------------------------------------ environment
StopReasons == {"tool_use", "end_turn", "max_tokens"}

\* Tools registered in the tool manager, and the names a model may request.
RegisteredTools == {"search_course_content"}
ToolNames == RegisteredTools \cup {"nonexistent"}

\* The values of the `tools` argument: absent, an empty list, a list of schemas.
ToolsArgs == {None, Some(<<>>), Some(<<[name |-> "search_course_content"]>>)}

\* The values of the `tool_manager` argument.
ToolManagerArgs == {None, Some("ToolManager")}

\* The values of the `conversation_history` argument.
HistoryArgs == {None, Some(<<"User: hi">>)}

query == <<"What is Python?">>

\* f"Tool '{block.name}' not found"
NotFoundText(name) == <<"Tool '", name, "' not found">>

\* The text of a successful search: a labelled block whose document text
\* quotes the not-found text of `name`.
SearchResultsText(name) ==
  <<"[Python Course - Lesson 1]\n">> \o NotFoundText(name)

\* The source a successful search records, and who recorded it: the running
\* top-level query ("this") or one before it ("earlier").
Source(of) ==
  [label |-> "Python Course - Lesson 1", url |-> "https://example.com/lesson1",
   of |-> of]

\* The exceptions the model client and a tool may raise.
APIError == "APIError"
ToolError == "ToolError"

\* Texts a registered tool may hand back for a request by `name`: search
\* results (whose document text here quotes the not-found text, so the result
\* contains it without being it), the not-found text itself, and the
\* not-found text of another name.
ToolTexts(name) ==
  { SearchResultsText(name),
    NotFoundText(name),
    NotFoundText("other_tool") }

\* Block k of the response to call n.  Identifiers, inputs and texts are
\* opaque to the code, so the client issues fresh ones per block.  Every
\* block answers the attribute `text`, as the response doubles of
\* tests/test_ai_generator.py do.
TextBlock(n, k) == [type |-> "text", text |-> <<"text", n, k>>]

ToolUseBlock(name, n, k) ==
  [type |-> "tool_use", name |-> name,
   input |-> [query |-> <<"input", n, k>>],
   id |-> <<"toolu", n, k>>, text |-> <<"text", n, k>>]

\* The names requested by the tool_use blocks of one response, in order.
NameSeqs == UNION {[1..len -> ToolNames] : len \in 0..MaxBlocks}

\* A content: an optional leading text block, then the tool_use blocks.
Content(lead, names, n) ==
  IF lead
    THEN <<TextBlock(n, 1)>> \o
         [k \in 1..Len(names) |-> ToolUseBlock(names[k], n, k + 1)]
    ELSE [k \in 1..Len(names) |-> ToolUseBlock(names[k], n, k)]

\* The contents of the response to call n: one block at least, MaxBlocks at
\* most.
Contents(n) ==
  { c \in { Content(lead, names, n) : lead \in BOOLEAN, names \in NameSeqs } :
      Len(c) \in 1..MaxBlocks }

\* The responses client.messages.create may return to call number n.  A
\* response that stops for tool use may hold any content, with or without a
\* tool_use block; one that stops for another reason is a text.
Responses(n) ==
  { [stop_reason |-> "tool_use", content |-> c] : c \in Contents(n) } \cup
  { [stop_reason |-> sr, content |-> <<TextBlock(n, 1)>>] :
      sr \in StopReasons \ {"tool_use"} }

\* ------------------------------------------------------------------ state
VARIABLES
  tools,                 \* argument `tools`
  tool_manager,          \* argument `tool_manager`
  conversation_history,  \* argument `conversation_history`
  pc,                    \* position in the code
  api_params,            \* generate_response: api_params (handler: base_params)
  messages,              \* _handle_tool_execution: messages
  current_response,      \* the response being examined
  round_num,             \* loop variable of the round loop
  block_idx,             \* position of the block loop in the content
  tool_results,          \* tool_results of the running round
  tool_failed,           \* tool_failed of the running round
  result,                \* the value generate_response returned
  exception,             \* the exception that left generate_response
  log,                   \* every create and execute_tool call, in order
  rounds,                \* number of rounds begun
  script,                \* responses fixed in advance (client side_effect)
  first_run,             \* what an earlier run on the same script did
  last_sources,          \* tool registry: the sources of the last search
  self_base_params,      \* the generator's attribute base_params
  app_pc,                \* position in the code around generate_response
  request,               \* POST /api/query: the request body
  session_id,            \* POST /api/query: session_id
  created,               \* sessions created while handling the request
  sources,               \* RAGSystem.query: sources
  collects,              \* get_last_sources calls made by the running query
  resets,                \* reset_sources calls made by the running query
  query_args,            \* the arguments RAGSystem.query was called with
  query_result,          \* what RAGSystem.query returned
  http_response          \* the response to the request

vars == <<tools, tool_manager, conversation_history, pc, api_params, messages,
          current_response, round_num, block_idx, tool_results, tool_failed,
          result, exception, log, rounds, script, first_run, last_sources,
          self_base_params, app_pc, request, session_id, created, sources,
          collects, resets, query_args, query_result, http_response>>

replay == <<script, first_run>>

args == <<tools, tool_manager, conversation_history>>

\* The state of the request handler and of the facade around generate_response.
app == <<app_pc, request, session_id, created, sources, collects, resets,
         query_args, query_result, http_response>>

\* ------------------------------------------------------------ log helpers
IsCreate(e) == e.kind = "create"
IsExecute(e) == e.kind = "execute_tool"
IsRaise(e) == e.kind = "raise"

Calls == SelectSeq(log, IsCreate)
Dispatches == SelectSeq(log, IsExecute)
NumCalls == Len(Calls)
NumDispatches == Len(Dispatches)

HasTools(params) == "tools" \in DOMAIN params

\* ------------------------------------------------- the two outside parties
\* client.messages.create(**params): the response to call number n.
CreateResponses(n) ==
  IF n <= Len(script) THEN {script[n]} ELSE Responses(n)

\* tool_manager.execute_tool(name, **kwargs)
ExecuteToolResults(name) ==
  IF name \in RegisteredTools THEN ToolTexts(name) ELSE {NotFoundText(name)}

\* What running the tool `name` leaves in the registry's last sources: a
\* successful search replaces them by its own, any other outcome leaves them.
RecordSources(slot, name, text) ==
  IF name \in RegisteredTools /\ text = SearchResultsText(name)
    THEN <<Source("this")>>
    ELSE slot

\* ------------------------------------------------------ generate_response
\* system_content (lines 64-68)
SystemContent(history) ==
  IF Truthy(history)
    THEN SYSTEM_PROMPT \o <<"\n\nPrevious conversation:\n">> \o history[1]
    ELSE SYSTEM_PROMPT

\* `if tools:` adds tools and tool_choice (lines 78-80, 140-142)
WithTools(params, include) ==
  IF include
    THEN ("tools" :> tools[1]) @@ ("tool_choice" :> [type |-> "auto"]) @@ params
    ELSE params

\* api_params (lines 71-80)
InitialParams ==
  WithTools(
    ("messages" :> <<[role |-> "user", content |-> query]>>) @@
    ("system" :> SystemContent(conversation_history)) @@ self_base_params,
    Truthy(tools))

\* response.content[0].text
FirstText(response) == response.content[1].text

\* Mutant of NeedsToolExecution: the tool manager is not looked at.
NeedsToolExecutionAnyManager(response) == response.stop_reason = "tool_use"

\* Mutant of NeedsToolExecution: the stop reason is not looked at.
NeedsToolExecutionAnyReason(response) == TruthyObject(tool_manager)

\* `if response.stop_reason == "tool_use" and tool_manager:` (line 86)
NeedsToolExecution(response) ==
  response.stop_reason = "tool_use" /\ TruthyObject(tool_manager)

\* Mutant of RangeHasNext: the range is one round too long.
RangeHasNextOffByOne(rn) == rn <= MAX_TOOL_ROUNDS

\* Mutant of RangeHasNext: the loop is `while True`.
RangeHasNextForever(rn) == TRUE

\* `for round_num in range(self.MAX_TOOL_ROUNDS)` (line 108): is there an
\* iteration for this value of round_num?
RangeHasNext(rn) == rn < MAX_TOOL_ROUNDS

\* Where control goes when the round loop asks for iteration rn.
LoopPosition(rn) == IF RangeHasNext(rn) THEN "round" ELSE "after_loop"

NoResponse == [stop_reason |-> "none", content |-> <<>>]

NoRequest == [session_id |-> None]

Init ==
  /\ tools \in ToolsArgs
  /\ tool_manager \in ToolManagerArgs
  /\ conversation_history \in HistoryArgs
  /\ pc = "start"
  /\ api_params = base_params
  /\ messages = <<>>
  /\ current_response = NoResponse
  /\ round_num = 0
  /\ block_idx = 1
  /\ tool_results = <<>>
  /\ tool_failed = FALSE
  /\ result = None
  /\ exception = None
  /\ log = <<>>
  /\ rounds = 0
  /\ script = <<>>
  /\ first_run = None
  /\ last_sources = <<>>
  /\ self_base_params = base_params
  /\ app_pc = "none"
  /\ request = NoRequest
  /\ session_id = None
  /\ created = 0
  /\ sources = <<>>
  /\ collects = 0
  /\ resets = 0
  /\ query_args = None
  /\ query_result = None
  /\ http_response = None

\* Mutant of AttributeAfterBuild: the parameters are written into the
\* attribute itself (api_params = self.base_params, then item assignments).
AttributeAfterBuildInPlace(attribute, built) == built

\* `{**self.base_params, ...}` (lines 71-75, 135-139, 151-155) builds a new
\* dict, and the item assignments of lines 79-80 and 141-142 go to that new
\* dict: the attribute is what it was.
AttributeAfterBuild(attribute, built) == attribute

\* Lines 64-83: build api_params and make the initial call.
InitialCall ==
  /\ pc = "start"
  /\ NumCalls < MaxCalls
  /\ \E response \in CreateResponses(NumCalls + 1) :
       /\ api_params' = InitialParams
       /\ current_response' = response
       /\ log' = Append(log, [kind |-> "create", site |-> "initial",
                              params |-> InitialParams,
                              response |-> response])
  /\ pc' = "initial_response"
  /\ self_base_params' =
       AttributeAfterBuild(self_base_params, InitialParams)
  /\ UNCHANGED <<args, messages, round_num, block_idx, tool_results,
                 tool_failed, result, rounds, replay, exception, last_sources,
                 app>>

\* Lines 86-90 with no tool execution: return the first response's text.
DirectReturn ==
  /\ pc = "initial_response"
  /\ ~NeedsToolExecution(current_response)
  /\ result' = Some(FirstText(current_response))
  /\ pc' = "done"
  /\ UNCHANGED <<args, api_params, messages, current_response, round_num,
                 block_idx, tool_results, tool_failed, log, rounds, replay,
                 exception, last_sources, self_base_params, app>>

\* Lines 86-87 and 105-108: enter _handle_tool_execution and its round loop.
EnterToolExecution ==
  /\ pc = "initial_response"
  /\ NeedsToolExecution(current_response)
  /\ messages' = api_params["messages"]
  /\ round_num' = 0
  /\ pc' = LoopPosition(0)
  /\ UNCHANGED <<args, api_params, current_response, block_idx, tool_results,
                 tool_failed, result, log, rounds, replay, exception,
                 last_sources, self_base_params, app>>

\* ------------------------------------------------- _handle_tool_execution
\* Mutant of WithAssistantTurn: only the query and the latest round are kept.
WithAssistantTurnLatestOnly(ms, response) ==
  <<ms[1], [role |-> "assistant", content |-> response.content]>>

\* messages.append({"role": "assistant", ...}) (line 110)
WithAssistantTurn(ms, response) ==
  Append(ms, [role |-> "assistant", content |-> response.content])

\* Lines 110-114: append the assistant turn and start the block loop.
RoundBegin ==
  /\ pc = "round"
  /\ messages' = WithAssistantTurn(messages, current_response)
  /\ tool_results' = <<>>
  /\ tool_failed' = FALSE
  /\ block_idx' = 1
  /\ rounds' = rounds + 1
  /\ pc' = "blocks"
  /\ UNCHANGED <<args, api_params, current_response, round_num, result, log,
                 replay, exception, last_sources, self_base_params, app>>

\* Mutant of IsNotFound: no result is taken for the not-found text.
IsNotFoundNever(text, name) == FALSE

\* Mutant of IsNotFound: `in` instead of `==`, the not-found text is looked
\* for inside the result.
IsNotFoundContained(text, name) ==
  \E k \in 1..(Len(text) - 2) : SubSeq(text, k, k + 2) = NotFoundText(name)

\* Mutant of IsNotFound: the text compared with is worded without the quotes.
IsNotFoundOtherWording(text, name) == text = <<"Tool ", name, " not found">>

\* `if result == f"Tool '{block.name}' not found"` (line 118)
IsNotFound(text, name) == text = NotFoundText(name)

\* Mutant of ToolResultBlock: every result carries the id of the first request.
ToolResultBlockStaleId(block, text) ==
  [type |-> "tool_result", tool_use_id |-> <<"toolu", 1, 1>>, content |-> text]

\* The tool_result block of lines 120-124.
ToolResultBlock(block, text) ==
  [type |-> "tool_result", tool_use_id |-> block.id, content |-> text]

\* Mutant of HasNextBlock: the block loop stops at the first failed dispatch.
HasNextBlockUntilFailure(idx, failed) ==
  idx <= Len(current_response.content) /\ ~failed

\* `for block in current_response.content` (line 115): is there a block at
\* position idx?  The loop does not look at tool_failed.
HasNextBlock(idx, failed) == idx <= Len(current_response.content)

\* Lines 115-124 for a tool_use block: dispatch it and record its result.
ExecuteTool ==
  /\ pc = "blocks"
  /\ HasNextBlock(block_idx, tool_failed)
  /\ LET block == current_response.content[block_idx] IN
       /\ block.type = "tool_use"
       /\ \E text \in ExecuteToolResults(block.name) :
            /\ tool_failed' = (tool_failed \/ IsNotFound(text, block.name))
            /\ tool_results' =
                 Append(tool_results, ToolResultBlock(block, text))
            /\ log' = Append(log, [kind |-> "execute_tool",
                                   tool_name |-> block.name,
                                   kwargs |-> block.input,
                                   result |-> text,
                                   round |-> rounds])
            /\ last_sources' = RecordSources(last_sources, block.name, text)
  /\ block_idx' = block_idx + 1
  /\ UNCHANGED <<args, pc, api_params, messages, current_response, round_num,
                 result, rounds, replay, exception, self_base_params, app>>

\* Lines 115-116 for a block that is not a tool_use block: nothing to do.
SkipBlock ==
  /\ pc = "blocks"
  /\ HasNextBlock(block_idx, tool_failed)
  /\ current_response.content[block_idx].type # "tool_use"
  /\ block_idx' = block_idx + 1
  /\ UNCHANGED <<args, pc, api_params, messages, current_response, round_num,
                 tool_results, tool_failed, result, log, rounds, replay,
                 exception, last_sources, self_base_params, app>>

\* Mutant of AfterRound: every round leaves the loop after its dispatches.
AfterRoundAlwaysBreak(failed) == "after_loop"

\* Mutant of AfterRound: a failed round does not leave the loop.
AfterRoundNoBreak(failed) == "next_call"

\* `if tool_failed: break` (lines 130-131): where control goes after a round's
\* dispatches.
AfterRound(failed) == IF failed THEN "after_loop" ELSE "next_call"

\* Lines 126-131: append the tool results, leave the loop on a failed round.
RoundEnd ==
  /\ pc = "blocks"
  /\ ~HasNextBlock(block_idx, tool_failed)
  /\ messages' = IF tool_results # <<>>
                   THEN Append(messages, [role |-> "user",
                                          content |-> tool_results])
                   ELSE messages
  /\ pc' = AfterRound(tool_failed)
  /\ UNCHANGED <<args, api_params, current_response, round_num, block_idx,
                 tool_results, tool_failed, result, log, rounds, replay,
                 exception, last_sources, self_base_params, app>>

\* Mutant of IsLastRound: every round is the last one.
IsLastRoundAlways(rn) == TRUE

\* Mutant of IsLastRound: no round is the last one.
IsLastRoundNever(rn) == FALSE

\* is_last_round (line 133)
IsLastRound(rn) == rn = MAX_TOOL_ROUNDS - 1

\* Mutant of NextParams: the system instructions are built anew, without the
\* history.
NextParamsBareSystem ==
  WithTools(
    ("messages" :> messages) @@ ("system" :> SYSTEM_PROMPT) @@
    self_base_params,
    Truthy(tools) /\ ~IsLastRound(round_num))

\* next_params (lines 135-142)
NextParams ==
  WithTools(
    ("messages" :> messages) @@ ("system" :> api_params["system"]) @@
    self_base_params,
    Truthy(tools) /\ ~IsLastRound(round_num))

\* Mutant of BreakAfterCall: a text response does not leave the loop.
BreakAfterCallNever(response) == FALSE

\* `if current_response.stop_reason != "tool_use": break` (lines 146-147)
BreakAfterCall(response) == response.stop_reason # "tool_use"

\* Lines 133-147: the model call that ends a round, and the loop's next step.
NextCall ==
  /\ pc = "next_call"
  /\ NumCalls < MaxCalls
  /\ \E response \in CreateResponses(NumCalls + 1) :
       /\ current_response' = response
       /\ log' = Append(log, [kind |-> "create", site |-> "loop",
                              params |-> NextParams,
                              response |-> response])
       /\ IF BreakAfterCall(response)
            THEN pc' = "after_loop" /\ round_num' = round_num
            ELSE /\ pc' = LoopPosition(round_num + 1)
                 /\ round_num' = IF RangeHasNext(round_num + 1)
                                   THEN round_num + 1 ELSE round_num
  /\ self_base_params' =
       AttributeAfterBuild(self_base_params, NextParams)
  /\ UNCHANGED <<args, api_params, messages, block_idx, tool_results,
                 tool_failed, result, rounds, replay, exception, last_sources,
                 app>>

\* Mutant of FallbackParams: the last response is appended as an assistant
\* turn before the fallback call.
FallbackParamsWithLastTurn ==
  ("messages" :> Append(messages, [role |-> "assistant",
                                   content |-> current_response.content])) @@
  ("system" :> api_params["system"]) @@ self_base_params

\* fallback_params (lines 151-155)
FallbackParams ==
  ("messages" :> messages) @@ ("system" :> api_params["system"]) @@
  self_base_params

\* Mutant of NeedsFallback: the fallback call is never made.
NeedsFallbackNever(response) == FALSE

\* Mutant of NeedsFallback: the fallback call is made after every loop.
NeedsFallbackAlways(response) == TRUE

\* `if current_response.stop_reason == "tool_use":` (line 150)
NeedsFallback(response) == response.stop_reason = "tool_use"

\* Lines 150-158 when the last response still asks for a tool: one more call
\* without tools, whose text is returned.
FallbackCall ==
  /\ pc = "after_loop"
  /\ NeedsFallback(current_response)
  /\ NumCalls < MaxCalls
  /\ \E response \in CreateResponses(NumCalls + 1) :
       /\ current_response' = response
       /\ log' = Append(log, [kind |-> "create", site |-> "fallback",
                              params |-> FallbackParams,
                              response |-> response])
       /\ result' = Some(FirstText(response))
  /\ pc' = "done"
  /\ self_base_params' =
       AttributeAfterBuild(self_base_params, FallbackParams)
  /\ UNCHANGED <<args, api_params, messages, round_num, block_idx,
                 tool_results, tool_failed, rounds, replay, exception,
                 last_sources, app>>

\* Lines 150 and 158 when the last response asks for no tool: return its text.
HandlerReturn ==
  /\ pc = "after_loop"
  /\ ~NeedsFallback(current_response)
  /\ result' = Some(FirstText(current_response))
  /\ pc' = "done"
  /\ UNCHANGED <<args, api_params, messages, current_response, round_num,
                 block_idx, tool_results, tool_failed, log, rounds, replay,
                 exception, last_sources, self_base_params, app>>

\* Mutant of AfterRaise: the exception is swallowed and the call returns.
AfterRaiseSwallowed(position) == "done"

\* Mutant of AfterRaise: the call that raised is made again.
AfterRaiseRetry(position) == position

\* Where control goes when a call made at `position` raises: no try
\* statement encloses lines 83, 117, 144 or 156, so the exception leaves
\* generate_response.
AfterRaise(position) == "raised"

\* The positions at which client.messages.create is called next.
AtCreate ==
  \/ pc \in {"start", "next_call"}
  \/ pc = "after_loop" /\ NeedsFallback(current_response)

\* The call site and the parameters of the create call made at position pc.
CreateSite ==
  CASE pc = "start" -> "initial"
    [] pc = "next_call" -> "loop"
    [] pc = "after_loop" -> "fallback"

CreateParams ==
  CASE pc = "start" -> InitialParams
    [] pc = "next_call" -> NextParams
    [] pc = "after_loop" -> FallbackParams

\* Lines 83, 144, 156: client.messages.create raises.
CreateRaises ==
  /\ AtCreate
  /\ log' = Append(log, [kind |-> "raise", site |-> CreateSite,
                         params |-> CreateParams])
  /\ exception' = Some(APIError)
  /\ pc' = AfterRaise(pc)
  /\ self_base_params' =
       AttributeAfterBuild(self_base_params, CreateParams)
  /\ UNCHANGED <<args, api_params, messages, current_response, round_num,
                 block_idx, tool_results, tool_failed, result, rounds, replay,
                 last_sources, app>>

\* Line 117: the registered tool that execute_tool runs raises.
ExecuteRaises ==
  /\ pc = "blocks"
  /\ HasNextBlock(block_idx, tool_failed)
  /\ current_response.content[block_idx].type = "tool_use"
  /\ current_response.content[block_idx].name \in RegisteredTools
  /\ log' = Append(log,
                   [kind |-> "raise", site |-> "execute_tool",
                    tool_name |-> current_response.content[block_idx].name])
  /\ exception' = Some(ToolError)
  /\ pc' = AfterRaise(pc)
  /\ UNCHANGED <<args, api_params, messages, current_response, round_num,
                 block_idx, tool_results, tool_failed, result, rounds, replay,
                 last_sources, self_base_params, app>>

Next ==
  \/ InitialCall
  \/ DirectReturn
  \/ EnterToolExecution
  \/ RoundBegin
  \/ ExecuteTool
  \/ SkipBlock
  \/ RoundEnd
  \/ NextCall
  \/ FallbackCall
  \/ HandlerReturn
  \/ CreateRaises
  \/ ExecuteRaises

Spec == Init /\ [][Next]_vars

\* What a test sees of a finished run: the number of model calls, the number
\* of dispatches, and for each call whether it carried tool schemas.
Observables ==
  [calls |-> NumCalls,
   dispatches |-> NumDispatches,
   schemas |-> [i \in 1..NumCalls |-> HasTools(Calls[i].params)]]

\* A second generate_response call with the same arguments, against a client
\* that answers call n as it answered call n of the first run (the side_effect
\* list of the tests); the tool manager answers afresh.
Replay ==
  /\ pc = "done"
  /\ first_run = None
  /\ first_run' = Some(Observables)
  /\ script' = [i \in 1..NumCalls |-> Calls[i].response]
  /\ pc' = "start"
  /\ api_params' = base_params
  /\ messages' = <<>>
  /\ current_response' = NoResponse
  /\ round_num' = 0
  /\ block_idx' = 1
  /\ tool_results' = <<>>
  /\ tool_failed' = FALSE
  /\ result' = None
  /\ exception' = None
  /\ log' = <<>>
  /\ rounds' = 0
  /\ UNCHANGED <<args, last_sources, self_base_params, app>>

NextReplay == Next \/ Replay

\* Two runs of generate_response on the same arguments and model responses.
ReplaySpec == Init /\ [][NextReplay]_vars

\* The scheduler is the Python interpreter: a call that has started runs on.
LiveSpec == Spec /\ WF_vars(Next)

\* ------------------------------------- RAGSystem.query and POST /api/query
\* The bodies of a valid POST /api/query: session_id left out or supplied.
Requests == {[session_id |-> None], [session_id |-> Some("existing-session")]}

\* session_manager.create_session()
NewSessionId == "new-session"

\* tool_manager.get_tool_definitions()
ToolDefinitions == <<[name |-> "search_course_content"]>>

\* session_manager.get_conversation_history(sid): a session just created has
\* no history, an existing one may have some.
Histories(sid) == IF sid = Some(NewSessionId) THEN {None} ELSE HistoryArgs

\* When a new top-level query starts, what the registry still holds was
\* recorded by an earlier query.
Earlier(slot) == [k \in 1..Len(slot) |-> [slot[k] EXCEPT !.of = "earlier"]]

\* The server is up and no request has been received yet.
AppInit ==
  /\ tools = None
  /\ tool_manager = None
  /\ conversation_history = None
  /\ pc = "idle"
  /\ api_params = base_params
  /\ messages = <<>>
  /\ current_response = NoResponse
  /\ round_num = 0
  /\ block_idx = 1
  /\ tool_results = <<>>
  /\ tool_failed = FALSE
  /\ result = None
  /\ exception = None
  /\ log = <<>>
  /\ rounds = 0
  /\ script = <<>>
  /\ first_run = None
  /\ last_sources = <<>>
  /\ self_base_params = base_params
  /\ app_pc = "idle"
  /\ request = NoRequest
  /\ session_id = None
  /\ created = 0
  /\ sources = <<>>
  /\ collects = 0
  /\ resets = 0
  /\ query_args = None
  /\ query_result = None
  /\ http_response = None

\* generate_response is over and its frame is gone.
FrameDiscarded ==
  /\ pc' = "idle"
  /\ api_params' = base_params
  /\ messages' = <<>>
  /\ current_response' = NoResponse
  /\ round_num' = 0
  /\ block_idx' = 1
  /\ tool_results' = <<>>
  /\ tool_failed' = FALSE
  /\ log' = <<>>
  /\ rounds' = 0

\* POST /api/query: a valid request reaches the handler, a new top-level
\* query.
HttpReceive ==
  /\ app_pc \in {"idle", "responded"}
  /\ \E r \in Requests : request' = r
  /\ app_pc' = "handler"
  /\ session_id' = None
  /\ created' = 0
  /\ sources' = <<>>
  /\ collects' = 0
  /\ resets' = 0
  /\ query_args' = None
  /\ query_result' = None
  /\ http_response' = None
  /\ exception' = None
  /\ result' = None
  /\ last_sources' = Earlier(last_sources)
  /\ UNCHANGED <<args, pc, api_params, messages, current_response, round_num,
                 block_idx, tool_results, tool_failed, log, rounds, replay,
                 self_base_params>>

\* Mutant of NeedsSession: a session is created for every request.
NeedsSessionAlways(r) == TRUE

\* The request names no session.
NeedsSession(r) == r.session_id = None

\* The handler takes the session id of the request, or creates a session
\* when the request has none.
HttpSession ==
  /\ app_pc = "handler"
  /\ IF NeedsSession(request)
       THEN session_id' = Some(NewSessionId) /\ created' = created + 1
       ELSE session_id' = request.session_id /\ created' = created
  /\ app_pc' = "query"
  /\ UNCHANGED <<args, pc, api_params, messages, current_response, round_num,
                 block_idx, tool_results, tool_failed, result, exception, log,
                 rounds, replay, last_sources, self_base_params, request,
                 sources, collects, resets, query_args, query_result,
                 http_response>>

\* RAGSystem.query(text, session_id): fetch the history of the session and
\* call generate_response with the registry's tool definitions and the
\* registry.
FacadeQuery ==
  /\ app_pc = "query"
  /\ query_args' = Some([query |-> query, session_id |-> session_id[1]])
  /\ tools' = Some(ToolDefinitions)
  /\ tool_manager' = Some("ToolManager")
  /\ conversation_history' \in Histories(session_id)
  /\ pc' = "start"
  /\ app_pc' = "generating"
  /\ UNCHANGED <<api_params, messages, current_response, round_num, block_idx,
                 tool_results, tool_failed, result, exception, log, rounds,
                 replay, last_sources, self_base_params, request, session_id,
                 created, sources, collects, resets, query_result,
                 http_response>>

\* generate_response returned: sources = tool_manager.get_last_sources()
FacadeCollect ==
  /\ app_pc = "generating"
  /\ pc = "done"
  /\ sources' = last_sources
  /\ collects' = collects + 1
  /\ FrameDiscarded
  /\ app_pc' = "collected"
  /\ UNCHANGED <<args, result, exception, replay, last_sources,
                 self_base_params, request, session_id, created, resets,
                 query_args, query_result, http_response>>

\* tool_manager.reset_sources()
FacadeReset ==
  /\ app_pc = "collected"
  /\ last_sources' = <<>>
  /\ resets' = resets + 1
  /\ app_pc' = "reset"
  /\ UNCHANGED <<args, pc, api_params, messages, current_response, round_num,
                 block_idx, tool_results, tool_failed, result, exception, log,
                 rounds, replay, request, session_id, created, sources,
                 collects, query_args, query_result, http_response,
                 self_base_params>>

\* return response, sources
FacadeReturn ==
  /\ app_pc = "reset"
  /\ query_result' = Some([answer |-> result[1], sources |-> sources])
  /\ app_pc' = "query_returned"
  /\ UNCHANGED <<args, pc, api_params, messages, current_response, round_num,
                 block_idx, tool_results, tool_failed, result, exception, log,
                 rounds, replay, last_sources, self_base_params, request,
                 session_id, created, sources, collects, resets, query_args,
                 http_response>>

\* generate_response raised: RAGSystem.query catches nothing, the exception
\* leaves it before the sources are collected and reset.
FacadeRaise ==
  /\ app_pc = "generating"
  /\ pc = "raised"
  /\ FrameDiscarded
  /\ app_pc' = "query_raised"
  /\ UNCHANGED <<args, result, exception, replay, last_sources,
                 self_base_params, request, session_id, created, sources,
                 collects, resets, query_args, query_result, http_response>>

\* The handler answers with the answer, the sources and the session id.
HttpRespond ==
  /\ app_pc = "query_returned"
  /\ http_response' = Some([status |-> 200,
                            answer |-> query_result[1].answer,
                            sources |-> query_result[1].sources,
                            session_id |-> session_id[1]])
  /\ app_pc' = "responded"
  /\ UNCHANGED <<args, pc, api_params, messages, current_response, round_num,
                 block_idx, tool_results, tool_failed, result, exception, log,
                 rounds, replay, last_sources, self_base_params, request,
                 session_id, created, sources, collects, resets, query_args,
                 query_result>>

\* The handler turns an exception of RAGSystem.query into a 500 response
\* whose detail is the text of the exception.
HttpError ==
  /\ app_pc = "query_raised"
  /\ http_response' = Some([status |-> 500, detail |-> exception[1]])
  /\ app_pc' = "responded"
  /\ UNCHANGED <<args, pc, api_params, messages, current_response, round_num,
                 block_idx, tool_results, tool_failed, result, exception, log,
                 rounds, replay, last_sources, self_base_params, request,
                 session_id, created, sources, collects, resets, query_args,
                 query_result>>

AppNext ==
  \/ HttpReceive
  \/ HttpSession
  \/ FacadeQuery
  \/ Next
  \/ FacadeCollect
  \/ FacadeReset
  \/ FacadeReturn
  \/ FacadeRaise
  \/ HttpRespond
  \/ HttpError

\* The server: requests handled one after the other, each running
\* generate_response inside RAGSystem.query.
AppSpec == AppInit /\ [][AppNext]_vars

\* ================================================================ claims
Done == pc = "done"

\* generate_response was left by an exception.
Raised == pc = "raised"

\* generate_response is over.
Finished == Done \/ Raised

\* The response to the i-th model call.
Response(i) == Calls[i].response

\* The tool_use blocks of a content, in order.
ToolUses(content) == SelectSeq(content, LAMBDA b : b.type = "tool_use")

\* The conversation sent on the i-th model call.
Conversation(i) == Calls[i].params["messages"]

\* Log entry i is a dispatch that returned the not-found text of its name.
FailedAt(i) ==
  /\ IsExecute(log[i])
  /\ log[i].result = <<"Tool '", log[i].tool_name, "' not found">>

\* The model calls logged after entry i.
CreatesAfter(i) == {j \in DOMAIN log : j > i /\ IsCreate(log[j])}

\* Entry e is a model call, one that returned or one that raised.
IsIssued(e) == IsCreate(e) \/ (IsRaise(e) /\ e.site # "execute_tool")

\* The model calls made, those that returned and those that raised.
Issued == {j \in DOMAIN log : IsIssued(log[j])}

\* The model calls made after entry i.
IssuedAfter(i) == {j \in DOMAIN log : j > i /\ IsIssued(log[j])}

\* ------------------------------------------------------------------- C1
\* C1: one generate_response call executes at most 2 tool-execution rounds:
\* no more than two rounds are begun, and every tool dispatch belongs to
\* round 1 or round 2.
C1_AtMostTwoRounds ==
  /\ rounds <= 2
  /\ \A i \in DOMAIN log : IsExecute(log[i]) => log[i].round \in 1..2

C1_Witness ==
  /\ Done
  /\ rounds = 2
  /\ \E i \in DOMAIN log : IsExecute(log[i]) /\ log[i].round = 2

\* ------------------------------------------------------------------- C2
\* C2: with a tool manager supplied, the response whose text is returned
\* never has stop reason tool_use.
C2_ReturnedResponseNotToolUse ==
  (Done /\ TruthyObject(tool_manager)) =>
    \A i \in 1..NumCalls :
      result = Some(FirstText(Response(i))) =>
        Response(i).stop_reason # "tool_use"

\* ------------------------------------------------------------------- C3
\* Steps one round takes at most: its begin, one step per content block, its
\* end, and the model call that closes it.
RoundSteps == MaxBlocks + 3

\* Steps from the model call that closes round round_num to the return.
StepsFromNextCall == 1 + (MAX_TOOL_ROUNDS - round_num - 1) * RoundSteps + 1

\* An upper bound on the steps still to be taken before the return.
StepsLeft ==
  CASE pc \in {"done", "raised"} -> 0
    [] pc = "after_loop" -> 1
    [] pc = "next_call" -> StepsFromNextCall
    [] pc = "blocks" ->
         (Len(current_response.content) + 1 - block_idx) + 1 + StepsFromNextCall
    [] pc = "round" -> (MAX_TOOL_ROUNDS - round_num) * RoundSteps + 1
    [] pc = "initial_response" -> MAX_TOOL_ROUNDS * RoundSteps + 2
    [] pc = "start" -> MAX_TOOL_ROUNDS * RoundSteps + 3

\* C3: generate_response terminates, whatever the model and the tools
\* answer: a call that has neither returned nor raised can always take its
\* next step (each model call and tool dispatch returns or raises), and every
\* step lowers StepsLeft, a natural number, so the end is reached within
\* StepsLeft steps.
C3_Terminates ==
  /\ [](StepsLeft \in Nat /\ (~Finished => ENABLED Next))
  /\ [][StepsLeft' < StepsLeft]_vars

C3_Witness ==
  /\ Done
  /\ NumCalls = 4
  /\ \A i \in 1..3 : Response(i).stop_reason = "tool_use"

\* ------------------------------------------------------------------- C4
\* C4: when the first response has a stop reason other than tool_use, there
\* is exactly one model call, no round, no tool dispatch, and the value
\* returned is that response's text.
C4_DirectAnswer ==
  (NumCalls >= 1 /\ Response(1).stop_reason # "tool_use") =>
    /\ NumCalls = 1
    /\ NumDispatches = 0
    /\ rounds = 0
    /\ pc \in {"initial_response", "done"}
    /\ Done => result = Some(FirstText(Response(1)))

C4_Witness ==
  /\ Done
  /\ TruthyObject(tool_manager)
  /\ Truthy(tools)
  /\ NumCalls = 1
  /\ Response(1).stop_reason = "max_tokens"
  /\ result = Some(FirstText(Response(1)))

\* ------------------------------------------------------------------- C5
\* C5: with a tool manager, a first response that requests one tool is
\* followed by a second model call; when the second response requests no
\* tool there are exactly 2 model calls and 1 dispatch, the dispatch carries
\* the requested name and inputs, and the second response's text is returned.
RequestsOneTool(response) ==
  /\ response.stop_reason = "tool_use"
  /\ Len(ToolUses(response.content)) = 1

C5_OneToolThenText ==
  (Done /\ TruthyObject(tool_manager) /\ RequestsOneTool(Response(1))) =>
    /\ NumCalls >= 2
    /\ Response(2).stop_reason # "tool_use" =>
         /\ NumCalls = 2
         /\ NumDispatches = 1
         /\ Dispatches[1].tool_name = ToolUses(Response(1).content)[1].name
         /\ Dispatches[1].kwargs = ToolUses(Response(1).content)[1].input
         /\ result = Some(FirstText(Response(2)))

C5_Witness ==
  /\ Done
  /\ TruthyObject(tool_manager)
  /\ RequestsOneTool(Response(1))
  /\ NumCalls = 2
  /\ Calls[2].site = "loop"
  /\ Response(2).stop_reason = "end_turn"
  /\ NumDispatches = 1

\* ------------------------------------------------------------------- C6
\* The case of C6: tool manager and non-empty schemas supplied, the first
\* two responses request tools and the third, if it is asked for, does not.
TwoToolResponsesThenText ==
  /\ Done
  /\ TruthyObject(tool_manager)
  /\ Truthy(tools)
  /\ NumCalls >= 2
  /\ Response(1).stop_reason = "tool_use"
  /\ Response(2).stop_reason = "tool_use"
  /\ NumCalls >= 3 => Response(3).stop_reason # "tool_use"

\* C6 as stated: two tool-requesting responses followed by a text response
\* yield exactly 3 model calls and 2 dispatches, the 2nd call with the tool
\* schemas and the 3rd without, and the third response's text is returned.
C6_AsStated ==
  TwoToolResponsesThenText =>
    /\ NumCalls = 3
    /\ NumDispatches = 2
    /\ HasTools(Calls[2].params)
    /\ ~HasTools(Calls[3].params)
    /\ result = Some(FirstText(Response(3)))

\* No dispatch of round r returned the not-found text.
RoundSucceeded(r) ==
  \A i \in DOMAIN log : (IsExecute(log[i]) /\ log[i].round = r) => ~FailedAt(i)

\* C6, amended: provided no dispatch of the first round returns the not-found
\* text, there are exactly 3 model calls and one dispatch per tool_use block
\* of the two responses; the 2nd call carries the schemas, the 3rd does not,
\* and the third response's text is returned.
C6_TwoRounds ==
  (TwoToolResponsesThenText /\ RoundSucceeded(1)) =>
    /\ NumCalls = 3
    /\ NumDispatches = Len(ToolUses(Response(1).content)) +
                       Len(ToolUses(Response(2).content))
    /\ HasTools(Calls[2].params)
    /\ ~HasTools(Calls[3].params)
    /\ result = Some(FirstText(Response(3)))

C6_Witness ==
  /\ TwoToolResponsesThenText
  /\ RoundSucceeded(1)
  /\ RequestsOneTool(Response(1))
  /\ RequestsOneTool(Response(2))
  /\ NumCalls = 3
  /\ NumDispatches = 2
  /\ Calls[3].site = "loop"

\* ------------------------------------------------------------------- C7
\* C7: after a dispatch that returned the not-found text, no in-loop model
\* call follows; exactly one further model call is made, it is the fallback
\* call, it carries no tool schemas, and its text is the returned answer.
C7_FailedRoundFallsBack ==
  \A i \in DOMAIN log :
    FailedAt(i) =>
      /\ \A j \in CreatesAfter(i) :
           log[j].site = "fallback" /\ ~HasTools(log[j].params)
      /\ Cardinality(CreatesAfter(i)) <= 1
      /\ Done =>
           \E j \in CreatesAfter(i) :
             result = Some(FirstText(log[j].response))

C7_Witness ==
  /\ Done
  /\ Truthy(tools)
  /\ \E i \in DOMAIN log : FailedAt(i) /\ log[i].round = 2
  /\ NumCalls = 3

\* ------------------------------------------------------------------- C8
\* C8: with no tool manager, a first response that requests a tool gives
\* exactly 1 model call, no round, no dispatch, and the value returned is
\* read from that first response.
C8_NoToolManager ==
  (tool_manager = None /\ NumCalls >= 1 /\
   Response(1).stop_reason = "tool_use") =>
    /\ NumCalls = 1
    /\ NumDispatches = 0
    /\ rounds = 0
    /\ pc \in {"initial_response", "done"}
    /\ Done => result = Some(FirstText(Response(1)))

C8_Witness ==
  /\ Done
  /\ tool_manager = None
  /\ NumCalls = 1
  /\ Response(1).stop_reason = "tool_use"
  /\ Response(1).content[1].type = "tool_use"
  /\ result = Some(FirstText(Response(1)))

\* ------------------------------------------------------------------- C9
\* The ids of the tool_use blocks of an assistant turn, in order.
ToolUseIds(content) ==
  [k \in 1..Len(ToolUses(content)) |-> ToolUses(content)[k].id]

\* The ids the blocks of a tool-result turn refer to, in order.
ResultIds(content) == [k \in 1..Len(content) |-> content[k].tool_use_id]

\* C9: in every conversation sent to the model, a user turn of tool results
\* follows an assistant turn and holds, in order, exactly one tool_result
\* block per tool_use block of that assistant turn, each with that block's
\* id; and every assistant turn with tool_use blocks is followed by such a
\* user turn.
C9_ResultsMatchRequests ==
  [](\A c \in Issued :
       LET ms == log[c].params["messages"] IN
         \A j \in 2..Len(ms) :
           /\ ms[j].role = "user" =>
                /\ ms[j-1].role = "assistant"
                /\ \A k \in 1..Len(ms[j].content) :
                     ms[j].content[k].type = "tool_result"
                /\ ResultIds(ms[j].content) = ToolUseIds(ms[j-1].content)
           /\ (ms[j].role = "assistant" /\ ToolUses(ms[j].content) # <<>>) =>
                /\ j < Len(ms)
                /\ ms[j+1].role = "user")

C9_Witness ==
  /\ Done
  /\ \E c \in 1..NumCalls :
       LET ms == Conversation(c) IN
         /\ Len(ms) = 5
         /\ Len(ms[3].content) = 2
         /\ Len(ms[5].content) = 2

\* ------------------------------------------------------------------ C10
\* C10: two runs with the same arguments and the same model responses, which
\* can differ only in the texts the tool manager hands back, make the same
\* number of model calls and of dispatches and put tool schemas on the same
\* calls.  (A request for an unregistered name gets the same text in both
\* runs, so the runs differ only in the texts of registered tools.)
C10_ToolTextIsOpaque ==
  (Done /\ first_run # None) => Observables = first_run[1]

\* ------------------------------------------------------------------ C11
\* The dispatches of round r, as positions in the log.
DispatchesOf(r) == {i \in DOMAIN log : IsExecute(log[i]) /\ log[i].round = r}

\* Round r has run its block loop and passed `if tool_failed: break`.
RoundOver(r) ==
  /\ r \in 1..rounds
  /\ rounds > r \/ pc \in {"round", "next_call", "after_loop", "done"}

\* The first model call made after entry i.
NextIssuedAfter(i) ==
  LET after == IssuedAfter(i)
  IN CHOOSE j \in after : \A k \in after : j <= k

\* The last turn of a conversation.
LastTurn(ms) == ms[Len(ms)]

\* C11: a tool output other than the not-found text of the requested name
\* never ends the loop early.  Once a round none of whose dispatches
\* returned the not-found text is over, control is at the model call that
\* closes the round or that call has been made: it is the next model call
\* after the dispatch, it is the in-loop call, and the conversation it sends
\* ends with a user turn holding a tool_result block with the tool's output.
C11_OtherTextContinues ==
  [](\A r \in 1..rounds :
       (RoundOver(r) /\ RoundSucceeded(r)) =>
         \A i \in DispatchesOf(r) :
           IF IssuedAfter(i) = {}
             THEN pc = "next_call"
             ELSE LET call == log[NextIssuedAfter(i)]
                      turn == LastTurn(call.params["messages"])
                  IN /\ call.site = "loop"
                     /\ turn.role = "user"
                     /\ \E k \in 1..Len(turn.content) :
                          /\ turn.content[k].type = "tool_result"
                          /\ turn.content[k].content = log[i].result)

\* Both rounds dispatched a tool whose output was not the not-found text of
\* the requested name (search results in round 1, the not-found text of
\* another name in round 2), and each was followed by its in-loop call.
C11_Witness ==
  /\ Done
  /\ NumCalls = 3
  /\ Calls[2].site = "loop"
  /\ Calls[3].site = "loop"
  /\ \E i \in DispatchesOf(1) :
       log[i].result = <<"[Python Course - Lesson 1]\n">> \o
                       NotFoundText(log[i].tool_name)
  /\ \E i \in DispatchesOf(2) : log[i].result = NotFoundText("other_tool")

\* ------------------------------------------------------------------ C12
\* C12: when a model call raises, generate_response makes no retry and no
\* further model call or tool dispatch (the raising call is the last entry of
\* the log), it returns no answer text and the error leaves it; and
\* RAGSystem.query, which was running it, lets the same error through and
\* returns nothing.
C12_RaisePropagates ==
  /\ \A i \in DOMAIN log :
       (IsRaise(log[i]) /\ IsIssued(log[i])) =>
         /\ i = Len(log)
         /\ Raised
         /\ result = None
         /\ exception = Some(APIError)
  /\ exception = Some(APIError) =>
       /\ result = None
       /\ query_result = None
       /\ app_pc \in {"generating", "query_raised", "responded"}
       /\ app_pc = "generating" => Raised

\* RAGSystem.query was left by the error of a model call made after a
\* successful search of the same query.
C12_Witness ==
  /\ app_pc = "query_raised"
  /\ exception = Some(APIError)
  /\ query_result = None
  /\ last_sources = <<Source("this")>>

\* ------------------------------------------------------------------ C13
\* The step appends to the log a dispatch of a name that is not registered.
DispatchesUnregistered ==
  /\ Len(log') = Len(log) + 1
  /\ IsExecute(log'[Len(log')])
  /\ log'[Len(log')].tool_name \notin RegisteredTools

\* C13: a dispatch of a name that is not registered returns exactly the text
\* Tool '<name>' not found for that name, and the orchestrator takes that
\* text for a failed round: the round is marked failed and no in-loop model
\* call follows the dispatch, only the fallback call.  The dispatch runs no
\* tool: it records no sources and nothing is raised.
C13_UnregisteredNotFound ==
  /\ [](\A i \in DOMAIN log :
          (IsExecute(log[i]) /\ log[i].tool_name \notin RegisteredTools) =>
            /\ log[i].result = <<"Tool '", log[i].tool_name, "' not found">>
            /\ (pc = "blocks" /\ rounds = log[i].round) => tool_failed
            /\ \A j \in IssuedAfter(i) : log[j].site = "fallback")
  /\ [][DispatchesUnregistered =>
          (last_sources' = last_sources /\ exception' = None)]_vars

\* The first of two requests of round 1 was for an unregistered name, after
\* which the second was still dispatched and the fallback call answered.
C13_Witness ==
  /\ Done
  /\ NumDispatches = 2
  /\ Dispatches[1].tool_name = "nonexistent"
  /\ Dispatches[1].round = 1
  /\ Dispatches[2].round = 1
  /\ NumCalls = 2
  /\ Calls[2].site = "fallback"

\* ------------------------------------------------------------------ C14
\* C14: over any sequence of top-level queries on one facade, the sources a
\* query returns were all recorded by tool executions of that same query,
\* never by an earlier one; a query that returns has collected the
\* registry's last sources exactly once and then reset them exactly once.
C14_SourcesOfThisQuery ==
  query_result # None =>
    /\ \A k \in 1..Len(query_result[1].sources) :
         query_result[1].sources[k].of = "this"
    /\ collects = 1
    /\ resets = 1
    /\ last_sources = <<>>

\* ------------------------------------------------------------------ C15
\* The handler is past its session step.
SessionSettled == app_pc \notin {"idle", "handler"}

\* C15: a POST /api/query without session_id creates exactly one session,
\* and the response of the query carries the id of that session; with a
\* session_id supplied no session is created, RAGSystem.query is called with
\* the supplied id and the response of the query carries the same id.
C15_SessionIds ==
  /\ (SessionSettled /\ request.session_id = None) =>
       /\ created = 1
       /\ query_args # None => query_args[1].session_id = NewSessionId
       /\ (http_response # None /\ http_response[1].status = 200) =>
            http_response[1].session_id = NewSessionId
  /\ (SessionSettled /\ request.session_id # None) =>
       /\ created = 0
       /\ query_args # None =>
            query_args[1].session_id = request.session_id[1]
       /\ (http_response # None /\ http_response[1].status = 200) =>
            http_response[1].session_id = request.session_id[1]

\* A request without session_id was answered with the id of the one session
\* created for it.
C15_Witness ==
  /\ app_pc = "responded"
  /\ request.session_id = None
  /\ created = 1
  /\ query_args = Some([query |-> query, session_id |-> NewSessionId])
  /\ http_response[1].status = 200
  /\ http_response[1].session_id = NewSessionId

\* ------------------------------------------------------------------ C16
\* C16: a failure raised while a query is processed (by a model call or by
\* a tool) surfaces as a response with status 500 and never in a response
\* that carries an answer: after the failure the facade neither collects
\* sources nor returns, the response is the 500 response, which has no
\* answer, and a response with status 200 is given only when nothing was
\* raised and carries the answer RAGSystem.query returned.
C16_FailureIs500 ==
  /\ exception # None =>
       /\ app_pc \in {"generating", "query_raised", "responded"}
       /\ query_result = None
       /\ app_pc = "responded" =>
            /\ http_response[1].status = 500
            /\ http_response[1].detail = exception[1]
            /\ "answer" \notin DOMAIN http_response[1]
  /\ (http_response # None /\ http_response[1].status = 200) =>
       /\ exception = None
       /\ query_result # None
       /\ http_response[1].answer = query_result[1].answer

\* A tool raised after a successful search of the same query, and the
\* request was answered with status 500.
C16_Witness ==
  /\ app_pc = "responded"
  /\ exception = Some(ToolError)
  /\ last_sources = <<Source("this")>>
  /\ http_response = Some([status |-> 500, detail |-> ToolError])

\* ------------------------------------------------------------------ C17
\* The round that the in-loop model call at entry j of the log ends: every
\* round makes at most one in-loop call, so it is the number of in-loop
\* calls up to j.
RoundEndedBy(j) ==
  Cardinality({i \in 1..j : IsIssued(log[i]) /\ log[i].site = "loop"})

\* The parameters carry the supplied schemas with automatic tool choice.
CarriesSchemas(params) ==
  /\ HasTools(params)
  /\ params["tools"] = tools[1]
  /\ "tool_choice" \in DOMAIN params
  /\ params["tool_choice"] = [type |-> "auto"]

\* C17: a model call carries the tool schemas (with automatic tool choice)
\* if and only if the supplied schemas are non-empty and the call is the
\* initial call or the call that ends the first round; the call that ends
\* the second round and the fallback call carry neither.
C17_SchemasOnlyWhileRoundsRemain ==
  \A j \in DOMAIN log :
    IsIssued(log[j]) =>
      LET offered == /\ Truthy(tools)
                     /\ \/ log[j].site = "initial"
                        \/ log[j].site = "loop" /\ RoundEndedBy(j) = 1
      IN /\ offered => CarriesSchemas(log[j].params)
         /\ ~offered => /\ ~HasTools(log[j].params)
                        /\ "tool_choice" \notin DOMAIN log[j].params

\* All four calls of the longest run: schemas on the initial call and on the
\* call ending round 1, none on the call ending round 2 and on the fallback.
C17_Witness ==
  /\ Done
  /\ Truthy(tools)
  /\ NumCalls = 4
  /\ Calls[2].site = "loop"
  /\ Calls[3].site = "loop"
  /\ Calls[4].site = "fallback"
  /\ CarriesSchemas(Calls[1].params)
  /\ CarriesSchemas(Calls[2].params)
  /\ ~HasTools(Calls[3].params)
  /\ ~HasTools(Calls[4].params)

\* ------------------------------------------------------------------ C18
\* Both rounds ran to their in-loop call, and the response to the call that
\* ended round 2 asks for a tool again.
RoundsExhausted ==
  LET calls == Calls
  IN /\ Len(calls) >= 3
     /\ calls[2].site = "loop"
     /\ calls[3].site = "loop"
     /\ calls[3].response.stop_reason = "tool_use"

\* C18: when both rounds complete without a failed dispatch and the response
\* to the tools-free call ending round 2 still requests a tool, exactly one
\* more model call is made, the fallback call without tools, and its text is
\* returned.  The requests of that last response are not dispatched (the
\* dispatches are those of the first two responses) and its assistant turn
\* is not appended: the fallback call is sent the conversation of the call
\* before it, and nothing is logged between the two calls.
C18_ExhaustionFallback ==
  []((Done /\ RoundsExhausted) =>
       /\ RoundSucceeded(1) /\ RoundSucceeded(2)
       /\ ~HasTools(Calls[3].params)
       /\ NumCalls = 4
       /\ Calls[4].site = "fallback"
       /\ ~HasTools(Calls[4].params)
       /\ result = Some(FirstText(Response(4)))
       /\ Conversation(4) = Conversation(3)
       /\ NumDispatches = Len(ToolUses(Response(1).content)) +
                          Len(ToolUses(Response(2).content))
       /\ IsCreate(log[Len(log)]) /\ IsCreate(log[Len(log) - 1]))

\* The third response requests a registered tool, which is never run: one
\* dispatch per round, then the fallback call.
C18_Witness ==
  /\ Done
  /\ RoundsExhausted
  /\ \E k \in DOMAIN Response(3).content :
       /\ Response(3).content[k].type = "tool_use"
       /\ Response(3).content[k].name \in RegisteredTools
  /\ NumDispatches = 2
  /\ Calls[4].site = "fallback"
  /\ Response(4).stop_reason = "end_turn"

\* ------------------------------------------------------------------ C19
\* So far the model has requested no tool on a call that offered no schemas.
ModelObeysOffer ==
  \A i \in 1..NumCalls :
    ~HasTools(Calls[i].params) => Response(i).stop_reason # "tool_use"

\* C19: as long as the model requests no tool on a call that offered no
\* schemas, the fallback is reached only through a failed round: a fallback
\* call, made or about to be made, comes after a dispatch that returned the
\* not-found text, and a run without such a dispatch makes at most 3 model
\* calls.
C19_FallbackOnlyAfterFailure ==
  ModelObeysOffer =>
    /\ \A j \in Issued :
         log[j].site = "fallback" => \E i \in 1..(j - 1) : FailedAt(i)
    /\ (pc = "after_loop" /\ current_response.stop_reason = "tool_use") =>
         \E i \in DOMAIN log : FailedAt(i)
    /\ (\A i \in DOMAIN log : ~FailedAt(i)) => Cardinality(Issued) <= 3

\* Two rounds without a failed dispatch and three model calls, the third
\* answered with text.
C19_Witness ==
  /\ Done
  /\ ModelObeysOffer
  /\ \A i \in DOMAIN log : ~FailedAt(i)
  /\ rounds = 2
  /\ NumDispatches >= 2
  /\ Cardinality(Issued) = 3

\* ------------------------------------------------------------------ C20
\* Some dispatch of round r returned exactly the not-found text of the name
\* it was made for.
SomeDispatchFailed(r) == \E i \in DispatchesOf(r) : FailedAt(i)

\* Round r ended by the break of a failed round: it is over and made no
\* in-loop model call, nor is about to.
RoundBroke(r) ==
  /\ RoundOver(r)
  /\ Cardinality({j \in Issued : log[j].site = "loop"}) < r
  /\ ~(pc = "next_call" /\ rounds = r)

\* C20: a round is marked failed if and only if one of its dispatches
\* returned exactly the text Tool '<name>' not found built from the name of
\* the requested block.  While the round runs, tool_failed says so; once it
\* is over, it left the loop without a model call exactly in that case.  A
\* result that only contains that text, or is the not-found text of another
\* name, does not count.
C20_FailedIffExactText ==
  [](/\ pc = "blocks" => (tool_failed <=> SomeDispatchFailed(rounds))
     /\ \A r \in 1..rounds :
          RoundOver(r) => (RoundBroke(r) <=> SomeDispatchFailed(r)))

\* A round whose two dispatches returned a text containing the not-found
\* text and the not-found text of another name, and which is not marked
\* failed.
C20_Witness ==
  /\ pc = "blocks"
  /\ rounds = 1
  /\ block_idx > Len(current_response.content)
  /\ NumDispatches = 2
  /\ Dispatches[1].result = SearchResultsText(Dispatches[1].tool_name)
  /\ Dispatches[2].result = NotFoundText("other_tool")
  /\ ~tool_failed

\* ------------------------------------------------------------------ C21
\* The dispatches of round r, in the order they were made.
RoundDispatches(r) == SelectSeq(log, LAMBDA e : IsExecute(e) /\ e.round = r)

\* The tool_result blocks that answer the requests `uses` with the results of
\* the dispatches ds, one per request and in the order of the requests.
ToolResultsOf(uses, ds) ==
  [k \in 1..Len(ds) |->
     [type |-> "tool_result", tool_use_id |-> uses[k].id,
      content |-> ds[k].result]]

\* The round loop has been left.
LoopExited ==
  \/ pc \in {"after_loop", "done"}
  \/ Raised /\ IsIssued(log[Len(log)]) /\ log[Len(log)].site = "fallback"

\* C21: the not-found text does not cut a round short.  When the loop has
\* been left after a round in which a dispatch returned the not-found text,
\* every tool_use block of that round's assistant turn was dispatched, in
\* order, with its name and inputs; the working conversation ends with that
\* assistant turn followed by one user turn holding the tool_result block of
\* every dispatch, the one with the not-found text included; and that is the
\* conversation the fallback call is sent.
C21_FailedRoundRunsToItsEnd ==
  []((LoopExited /\ rounds >= 1 /\ SomeDispatchFailed(rounds)) =>
       LET uses == ToolUses(Response(rounds).content)
           ds == RoundDispatches(rounds)
       IN /\ Len(ds) = Len(uses)
          /\ \A k \in 1..Len(ds) :
               /\ ds[k].tool_name = uses[k].name
               /\ ds[k].kwargs = uses[k].input
          /\ Len(messages) >= 2
          /\ messages[Len(messages) - 1] =
               [role |-> "assistant", content |-> Response(rounds).content]
          /\ LastTurn(messages) =
               [role |-> "user", content |-> ToolResultsOf(uses, ds)]
          /\ \E k \in 1..Len(ds) :
               LastTurn(messages).content[k].content =
                 <<"Tool '", uses[k].name, "' not found">>
          /\ \A j \in Issued :
               log[j].site = "fallback" => log[j].params["messages"] = messages)

\* The first of the two requests of round 1 got the not-found text, the
\* second was dispatched all the same and found content, both results are in
\* the user turn, and the fallback call was made.
C21_Witness ==
  /\ Done
  /\ rounds = 1
  /\ Len(RoundDispatches(1)) = 2
  /\ FailedAt(2)
  /\ log[3].result = SearchResultsText(log[3].tool_name)
  /\ Len(LastTurn(messages).content) = 2
  /\ LastTurn(messages).content[1].content = NotFoundText("nonexistent")
  /\ Calls[2].site = "fallback"

\* ------------------------------------------------------------------ C22
\* C22: every conversation sent on a model call starts with the user query,
\* alternates user and assistant turns and ends with a user turn: the call
\* that ends round r sends the query and, for each of the r rounds, one
\* assistant turn followed by one user turn, also when a response that asks
\* for a tool holds no tool_use block.
C22_ConversationAlternates ==
  \A c \in Issued :
    LET ms == log[c].params["messages"] IN
      /\ ms[1] = [role |-> "user", content |-> query]
      /\ \A j \in 1..(Len(ms) - 1) : ms[j].role # ms[j + 1].role
      /\ LastTurn(ms).role = "user"
      /\ log[c].site = "loop" => Len(ms) = 1 + 2 * RoundEndedBy(c)

\* ------------------------------------------------------------------ C23
\* Conversation a is the beginning of conversation b.
IsPrefix(a, b) == Len(a) <= Len(b) /\ SubSeq(b, 1, Len(a)) = a

\* C23: the working conversation only grows.  No step removes, reorders or
\* rewrites a message of it, and of any two model calls of one query the
\* later is sent a conversation that begins with the whole conversation of
\* the earlier.
C23_AppendOnly ==
  /\ [](\A c \in Issued : \A d \in Issued :
          c < d =>
            IsPrefix(log[c].params["messages"], log[d].params["messages"]))
  /\ [][IsPrefix(messages, messages')]_vars

\* Four calls whose conversations hold 1, 3, 5 and 5 messages.
C23_Witness ==
  /\ Done
  /\ NumCalls = 4
  /\ Len(Conversation(1)) = 1
  /\ Len(Conversation(2)) = 3
  /\ Len(Conversation(3)) = 5
  /\ Len(Conversation(4)) = 5
  /\ Len(messages) = 5

\* ------------------------------------------------------------------ C24
\* The model calls made before entry i of the log.
IssuedBefore(i) == {j \in Issued : j < i}

\* C24: dispatches are made one at a time and in order.  The dispatches of a
\* round are, in the order of the log, for the tool_use blocks of the
\* response that opened the round in the order they appear there; a dispatch
\* of round r comes after the r-th model call and before the next one; and
\* when generate_response returns, the last entry of the log is a model call,
\* made after every dispatch, and the answer is the text of its response.
C24_DispatchesInOrder ==
  [](/\ \A r \in 1..rounds :
          LET uses == ToolUses(Response(r).content)
              ds == RoundDispatches(r)
          IN /\ Len(ds) <= Len(uses)
             /\ \A k \in 1..Len(ds) :
                  /\ ds[k].tool_name = uses[k].name
                  /\ ds[k].kwargs = uses[k].input
     /\ \A i \in DOMAIN log :
          IsExecute(log[i]) => Cardinality(IssuedBefore(i)) = log[i].round
     /\ Done =>
          /\ IsCreate(log[Len(log)])
          /\ result = Some(FirstText(log[Len(log)].response)))

\* Two rounds of two dispatches each: the log is a model call, two
\* dispatches, a model call, two dispatches, and the model call that answers.
C24_Witness ==
  /\ Done
  /\ Len(log) = 7
  /\ NumCalls = 3
  /\ Len(RoundDispatches(1)) = 2
  /\ Len(RoundDispatches(2)) = 2
  /\ IsExecute(log[5]) /\ IsExecute(log[6])
  /\ log[5].tool_name # log[6].tool_name
  /\ result = Some(FirstText(log[7].response))

\* ------------------------------------------------------------------ C25
\* The keys that may differ from one model call of a query to the next.
VaryingKeys == {"messages", "tools", "tool_choice"}

\* The parameters of a model call without those keys.
FixedPart(params) ==
  [key \in DOMAIN params \ VaryingKeys |-> params[key]]

\* C25: every model call of a query, initial, in-loop or fallback, returned
\* or raised, carries the system instructions of the initial call (the
\* prompt, followed by the history when there is one), the model,
\* temperature 0 and max_tokens 800, and apart from the conversation and the
\* tool schemas with their tool choice nothing else.
C25_FixedParameters ==
  \A c \in Issued :
    LET params == log[c].params IN
      /\ DOMAIN params \ VaryingKeys =
           {"system", "model", "temperature", "max_tokens"}
      /\ params["system"] = log[1].params["system"]
      /\ params["system"] = SystemContent(conversation_history)
      /\ params["model"] = "test-model"
      /\ params["temperature"] = 0
      /\ params["max_tokens"] = 800
      /\ "messages" \in DOMAIN params

\* A query with history and schemas that made all four calls, the last two
\* without schemas: all four carry the prompt followed by the history.
C25_Witness ==
  /\ Done
  /\ Truthy(conversation_history)
  /\ Truthy(tools)
  /\ NumCalls = 4
  /\ Calls[4].site = "fallback"
  /\ \A i \in 1..4 :
       Calls[i].params["system"] =
         SYSTEM_PROMPT \o <<"\n\nPrevious conversation:\n">> \o
         conversation_history[1]
  /\ FixedPart(Calls[4].params) = FixedPart(Calls[1].params)
  /\ Calls[4].params # Calls[1].params

\* ------------------------------------------------------------------ C26
\* The `tools` argument holds at least one definition.
ToolsSupplied == tools # None /\ tools[1] # <<>>

\* C26: the first model call of a query, and no other, is the initial call;
\* the conversation it sends is the user query alone; and it carries the
\* supplied tool definitions with tool choice auto when the `tools` argument
\* is a non-empty list, and neither key when it is None or an empty list.
C26_InitialCall ==
  /\ \A c \in Issued : log[c].site = "initial" <=> c = 1
  /\ log # <<>> =>
       LET params == log[1].params IN
         /\ IsIssued(log[1])
         /\ params["messages"] = <<[role |-> "user", content |-> query]>>
         /\ ToolsSupplied =>
              /\ DOMAIN params \cap {"tools", "tool_choice"} =
                   {"tools", "tool_choice"}
              /\ params["tools"] = tools[1]
              /\ params["tool_choice"] = [type |-> "auto"]
         /\ ~ToolsSupplied =>
              DOMAIN params \cap {"tools", "tool_choice"} = {}

\* The initial call of a query whose `tools` argument is an empty list: the
\* call was made without schemas, and the model asked for a tool all the
\* same.
C26_Witness ==
  /\ tools = Some(<<>>)
  /\ pc = "initial_response"
  /\ Len(log) = 1
  /\ log[1].site = "initial"
  /\ ~HasTools(log[1].params)
  /\ log[1].response.stop_reason = "tool_use"

\* ------------------------------------------------------------------ C27
\* The turns round r adds to the conversation, from the response that opened
\* it and the results of its dispatches.
RoundTurns(r) ==
  LET uses == ToolUses(Response(r).content)
      ds == RoundDispatches(r)
  IN <<[role |-> "assistant", content |-> Response(r).content]>> \o
     (IF ds # <<>>
        THEN <<[role |-> "user", content |-> ToolResultsOf(uses, ds)]>>
        ELSE <<>>)

\* The conversation after n rounds: the query of this call, then the turns
\* of its rounds.
RECURSIVE ConversationAfter(_)
ConversationAfter(n) ==
  IF n = 0
    THEN <<[role |-> "user", content |-> query]>>
    ELSE ConversationAfter(n - 1) \o RoundTurns(n)

\* The rounds that were over when the model call at entry j was made.
RoundsBefore(j) ==
  IF log[j].site = "fallback" THEN rounds ELSE Cardinality(IssuedBefore(j))

\* The parameters of the model call at entry j, worked out from nothing but
\* the arguments of the running call, the responses it was given and the
\* results of its dispatches.
ParamsFromOwnInputs(j) ==
  LET offered == /\ ToolsSupplied
                 /\ \/ log[j].site = "initial"
                    \/ log[j].site = "loop" /\ RoundEndedBy(j) = 1
      plain == ("messages" :> ConversationAfter(RoundsBefore(j))) @@
               ("system" :> SystemContent(conversation_history)) @@
               base_params
  IN IF offered
       THEN ("tools" :> tools[1]) @@ ("tool_choice" :> [type |-> "auto"]) @@
            plain
       ELSE plain

\* C27: nothing of the generator goes from one query to the next.  Over any
\* sequence of queries on one generator, the attribute base_params stays
\* what __init__ made it; between two generate_response calls no working
\* conversation is left; and every model call of a query carries the
\* parameters that follow from that query's own arguments, responses and
\* tool results, whatever the queries before it did.
C27_NoStateAcrossQueries ==
  /\ self_base_params = base_params
  /\ pc = "idle" => messages = <<>>
  /\ \A j \in Issued : log[j].params = ParamsFromOwnInputs(j)

\* A query that follows one which failed after a successful search (the
\* registry still holds that search's source): it ran two rounds with a
\* history and ended on its third model call.
C27_Witness ==
  /\ app_pc = "generating"
  /\ Done
  /\ last_sources = <<Source("earlier")>>
  /\ Truthy(conversation_history)
  /\ rounds = 2
  /\ NumDispatches >= 2
  /\ NumCalls = 3
  /\ Len(Conversation(3)) = 5

\* ------------------------------------------------------------------ C28
\* The model calls made from call site `site`, returned or raised.
IssuedFrom(site) == {j \in Issued : log[j].site = site}

\* C28: one generate_response call makes at most 4 model calls: 1 initial,
\* at most 2 in the loop, at most 1 fallback.  It makes 4 only when the
\* first three responses all ask for a tool and no dispatch returned the
\* not-found text.
C28_AtMostFourCalls ==
  LET issued == Issued IN
    /\ Cardinality(issued) <= 4
    /\ Cardinality({j \in issued : log[j].site = "initial"}) <= 1
    /\ Cardinality({j \in issued : log[j].site = "loop"}) <= 2
    /\ Cardinality({j \in issued : log[j].site = "fallback"}) <= 1
    /\ Cardinality(issued) = 4 =>
         /\ NumCalls >= 3
         /\ \A i \in 1..3 : Response(i).stop_reason = "tool_use"
         /\ \A i \in DOMAIN log : ~FailedAt(i)

\* The fourth model call has been made, and it failed: three returned
\* calls, the fallback call raised.
C28_Witness ==
  /\ Raised
  /\ Cardinality(Issued) = 4
  /\ NumCalls = 3
  /\ IsRaise(log[Len(log)])
  /\ IssuedFrom("fallback") = {Len(log)}
  /\ NumDispatches = 2

====
